---- MODULE Spec2Model ----
(***************************************************************************)
(* Model of the documentation-updater actions (getCommitInfo,              *)
(* findDocumentation, getBranch, writeDocumentation, commitChange,         *)
(* managePR) running against a git hosting remote.  findDocumentation is   *)
(* taken in the steps of its concurrent fetches; every other action is one *)
(* step.  Strings are sequences of tokens, so that startsWith              *)
(* and includes are real prefix / substring tests.  Every action is one    *)
(* handler invocation: the remote calls it issues, in order, with the      *)
(* first uncaught failing call aborting it.                                *)
(***************************************************************************)
EXTENDS Integers, Sequences, FiniteSets, TLC

VARIABLES
    env,        \* process.env: which credentials are set
    github,     \* the remote repository: refs, open pulls, comments, files
    state,      \* context.state, the ReviewState threaded through the actions
    now,        \* the clock read by Date.now()
    runId,      \* the originating pull request number of the current run, if any
    executed,   \* actions that returned successfully in the current run
    openedFor,  \* history: <<pull number, original_pr_number>> of each pulls.create
    fd          \* findDocumentation in progress: its position, fetches and calls

vars == <<env, github, state, now, runId, executed, openedFor, fd>>

-----------------------------------------------------------------------------
(* Bounds of the model. *)

\* Commits the remote accepts, and branches named after the clock.
MaxCommits == 2
MaxClock == 1

-----------------------------------------------------------------------------
(* Strings. *)

NoId == 0

Ids == {4, 42}

RECURSIVE NumStr(_)
NumStr(n) == IF n < 10 THEN <<ToString(n)>>
             ELSE NumStr(n \div 10) \o <<ToString(n % 10)>>

\* `${x}` in a template literal; an undefined value prints as "undefined".
Interp(id) == IF id = NoId THEN <<"undefined">> ELSE NumStr(id)

StartsWith(s, p) == Len(p) <= Len(s) /\ SubSeq(s, 1, Len(p)) = p

Includes(s, p) ==
    \E i \in 1..(Len(s) - Len(p) + 1) : SubSeq(s, i, i + Len(p) - 1) = p

MinOf(S) == CHOOSE i \in S : \A j \in S : i <= j

\* Array.prototype.find, given the indexes of the elements that pass the
\* test: the first of them, 0 if there is none.
Find(hits) == IF hits = {} THEN 0 ELSE MinOf(hits)

\* The title literal of managePR and findDocumentation: U+1F4DA, then text.
ManagePRMarker == <<"U+1F4DA", " Update documentation">>

\* The title literal of getBranch: the same bytes read as Windows-1252.
GetBranchMarker ==
    <<"U+00F0", "U+0178", "U+201C", "U+0161", " Update documentation">>

DefaultBranch == <<"main">>

-----------------------------------------------------------------------------
(* Remote calls.  A call is a record; ok tells whether the remote answered *)
(* it without an error.                                                    *)

Call(op) ==
    [op |-> op, ref |-> <<>>, path |-> <<>>, num |-> 0, sha |-> 0,
     title |-> <<>>, body |-> <<>>, base |-> <<>>, labels |-> {}, ok |-> TRUE]

\* The fault-th call of the plan fails for a reason outside the program.
Inject(plan, fault) ==
    [i \in DOMAIN plan |->
        IF i = fault THEN [plan[i] EXCEPT !.ok = FALSE] ELSE plan[i]]

\* A handler that swallows the error of a call and goes on.
UpToFailureSwallowed(plan) == plan

\* An await that throws ends the handler: nothing after it is issued.
UpToFailure(plan) ==
    LET bad == {i \in DOMAIN plan : ~plan[i].ok}
    IN  IF bad = {} THEN plan ELSE SubSeq(plan, 1, MinOf(bad))

AllOk(calls) == \A i \in DOMAIN calls : calls[i].ok

HasRef(g, name) == name \in DOMAIN g.refs

\* A commit sha is a hash of its parent and its content: the sha of the commit
\* that createOrUpdateFileContents puts on top of parent.
ChildSha(parent) == parent * 10 + 1

\* Effect of one successful call on the remote.  Reads change nothing, and
\* the labels of a pull request are not part of the modelled remote.
ApplyCall(g, c) ==
    CASE c.op = "git.createRef" ->
            [g EXCEPT !.refs = (c.ref :> c.sha) @@ g.refs,
                      !.files = g.files \cup
                          {[branch |-> c.ref, path |-> f.path] :
                              f \in {x \in g.files : x.branch = DefaultBranch}}]
      [] c.op = "repos.createOrUpdateFileContents" ->
            [g EXCEPT !.refs = (c.ref :> ChildSha(g.refs[c.ref])) @@ g.refs,
                      !.commits = g.commits + 1,
                      !.ahead = g.ahead \cup {c.ref},
                      !.files = g.files \cup {[branch |-> c.ref, path |-> c.path]}]
      [] c.op = "pulls.create" ->
            [g EXCEPT !.pulls = <<[number |-> g.nextNumber, title |-> c.title,
                                   body |-> c.body, head |-> c.ref,
                                   base |-> c.base]>> \o g.pulls,
                      !.nextNumber = g.nextNumber + 1]
      [] c.op = "pulls.update" ->
            [g EXCEPT !.pulls = [i \in DOMAIN g.pulls |->
                IF g.pulls[i].number = c.num
                THEN [g.pulls[i] EXCEPT !.title = c.title, !.body = c.body]
                ELSE g.pulls[i]]]
      [] c.op = "issues.createComment" ->
            [g EXCEPT !.comments = g.comments \cup
                          {[issue |-> c.num, body |-> c.body]}]
      [] OTHER -> g

RECURSIVE ApplyCalls(_, _)
ApplyCalls(g, calls) ==
    IF calls = <<>> THEN g
    ELSE ApplyCalls(IF Head(calls).ok THEN ApplyCall(g, Head(calls)) ELSE g,
                    Tail(calls))

\* A handler that goes on without looking at the environment.
HasCredentialAssumed(e, name) == TRUE

\* if (!process.env.NAME) throw: whether the credential is set.
HasCredential(e, name) == e[name]

-----------------------------------------------------------------------------
(* The pipeline state. *)

None == <<>>
Some(x) == <<x>>

\* state.config.matchRules.docExtensions, as configured for the documentation.
DocExtensions == {".mdx", ".md"}

\* The state a run starts with: the configuration and no other field.
EmptyState ==
    [commitInfo |-> None, docInfo |-> None, branchInfo |-> None,
     generatedContent |-> None,
     config |-> [matchRules |-> [docExtensions |-> DocExtensions]]]

\* What a handler invocation comes to: result "ok" is a returned context.
Outcome(result, calls, newState) ==
    [result |-> result, calls |-> calls, state |-> newState]

-----------------------------------------------------------------------------
(* getBranch *)

\* pulls.find of getBranch
GetBranchIsDocsPR(pr, id) ==
    /\ StartsWith(pr.title, GetBranchMarker)
    /\ Includes(pr.body, <<"#">> \o Interp(id))

GetBranchFind(pulls, id) ==
    Find({i \in DOMAIN pulls : GetBranchIsDocsPR(pulls[i], id)})

\* A getBranch that names every new branch after the clock.
NewBranchNameFromClock(id, clock) ==
    <<"docs", "/", "update-">> \o NumStr(clock)

NewBranchName(id, clock) ==
    IF id # NoId
    THEN <<"docs", "/", "update-pr-">> \o NumStr(id)
    ELSE <<"docs", "/", "update-">> \o NumStr(clock)

GetBranchPlan(g, id, clock) ==
    LET list == IF id # NoId THEN <<Call("pulls.list")>> ELSE <<>>
        found == IF id # NoId THEN GetBranchFind(g.pulls, id) ELSE 0
    IN  IF found # 0
        THEN list \o
             <<[Call("git.getRef") EXCEPT !.ref = g.pulls[found].head,
                                          !.ok = HasRef(g, g.pulls[found].head)]>>
        ELSE list \o
             <<Call("repos.get"),
               [Call("git.getRef") EXCEPT !.ref = DefaultBranch,
                                          !.ok = HasRef(g, DefaultBranch)],
               [Call("git.createRef") EXCEPT
                    !.ref = NewBranchName(id, clock),
                    !.sha = IF HasRef(g, DefaultBranch)
                            THEN g.refs[DefaultBranch] ELSE 0,
                    !.ok = ~HasRef(g, NewBranchName(id, clock))]>>

GetBranchRun(e, g, s, id, valid, fault, clock) ==
    IF ~HasCredential(e, "GITHUB_TOKEN") THEN Outcome("MissingCredential", <<>>, s)
    ELSE IF ~valid THEN Outcome("InvalidParameters", <<>>, s)
    ELSE
      LET calls == UpToFailure(Inject(GetBranchPlan(g, id, clock), fault))
          found == IF id # NoId THEN GetBranchFind(g.pulls, id) ELSE 0
          branchInfo ==
              IF found # 0
              THEN [name |-> g.pulls[found].head,
                    sha |-> g.refs[g.pulls[found].head], exists |-> TRUE]
              ELSE [name |-> NewBranchName(id, clock),
                    sha |-> g.refs[DefaultBranch], exists |-> TRUE]
      IN  IF AllOk(calls)
          THEN Outcome("ok", calls, [s EXCEPT !.branchInfo = Some(branchInfo)])
          ELSE Outcome("RemoteOperationFailed", calls, s)

-----------------------------------------------------------------------------
(* commitChange *)

\* The one blob the model commits: commitChange's content is not modelled.
BlobSha == 7

\* The blob sha of path on branch, 0 when the remote has no such file.
BlobOf(g, branch, path) ==
    IF [branch |-> branch, path |-> path] \in g.files THEN BlobSha ELSE 0

\* A commitChange that sends the blob sha the remote holds, whatever the
\* lookup returned.
CommitChangeCallsShaOfRemote(g, branch, path, fault) ==
    LET getContent ==
            [Call("repos.getContent") EXCEPT
                !.ref = branch, !.path = path,
                !.ok = BlobOf(g, branch, path) # 0 /\ fault # 1]
        sha == BlobOf(g, branch, path)
        write ==
            [Call("repos.createOrUpdateFileContents") EXCEPT
                !.ref = branch, !.path = path, !.sha = sha,
                !.ok = /\ HasRef(g, branch)
                       /\ sha = BlobOf(g, branch, path)
                       /\ fault # 2]
    IN  <<getContent, write>>

CommitChangeCalls(g, branch, path, fault) ==
    LET getContent ==
            [Call("repos.getContent") EXCEPT
                !.ref = branch, !.path = path,
                !.ok = BlobOf(g, branch, path) # 0 /\ fault # 1]
        \* the catch around getContent leaves sha undefined
        sha == IF getContent.ok THEN BlobOf(g, branch, path) ELSE 0
        write ==
            [Call("repos.createOrUpdateFileContents") EXCEPT
                !.ref = branch, !.path = path, !.sha = sha,
                !.ok = /\ HasRef(g, branch)
                       /\ sha = BlobOf(g, branch, path)
                       /\ fault # 2]
    IN  <<getContent, write>>

CommitChangeRun(e, g, s, path, valid, fault) ==
    IF ~HasCredential(e, "GITHUB_TOKEN") THEN Outcome("MissingCredential", <<>>, s)
    ELSE IF s.branchInfo = None \/ ~s.branchInfo[1].exists
         THEN Outcome("DependencyUnmet", <<>>, s)
    ELSE IF ~valid THEN Outcome("InvalidParameters", <<>>, s)
    ELSE
      LET calls == CommitChangeCalls(g, s.branchInfo[1].name, path, fault)
      IN  IF calls[2].ok
          THEN Outcome("ok", calls, s)
          ELSE Outcome("RemoteOperationFailed", calls, s)

-----------------------------------------------------------------------------
(* managePR *)

\* pulls.find of managePR
ManagePRIsDocsPR(pr, id) ==
    /\ StartsWith(pr.title, ManagePRMarker)
    /\ Includes(pr.body, <<"#">> \o Interp(id))

\* A managePR that searches with the title literal of getBranch.
ManagePRFindOtherLiteral(pulls, id) ==
    Find({i \in DOMAIN pulls : GetBranchIsDocsPR(pulls[i], id)})

ManagePRFind(pulls, id) ==
    Find({i \in DOMAIN pulls : ManagePRIsDocsPR(pulls[i], id)})

\* The body of the comment left on the originating pull request.
CommentBody(number) ==
    <<"I've created a documentation update PR: ", "#">> \o NumStr(number)

\* A managePR that comments without looking at original_pr_number.
CommentCallsUnguarded(id, number) ==
    <<[Call("issues.createComment") EXCEPT
          !.num = id, !.body = CommentBody(number)]>>

\* The cross-reference comment, posted only if original_pr_number was given.
CommentCalls(id, number) ==
    IF id # NoId
    THEN <<[Call("issues.createComment") EXCEPT
               !.num = id, !.body = CommentBody(number)]>>
    ELSE <<>>

\* The remote refuses a pull request whose head or base is missing, whose
\* head has no commit of its own, or that repeats an open head/base pair.
CanCreatePull(g, head, base) ==
    /\ HasRef(g, head)
    /\ HasRef(g, base)
    /\ head \in g.ahead
    /\ \A i \in DOMAIN g.pulls :
          ~(g.pulls[i].head = head /\ g.pulls[i].base = base)

ManagePRPlan(g, s, p) ==
    LET found == ManagePRFind(g.pulls, p.original_pr_number)
        base == IF p.base_branch = None THEN DefaultBranch ELSE p.base_branch[1]
    IN  IF found # 0
        THEN <<Call("pulls.list"),
               [Call("pulls.update") EXCEPT !.num = g.pulls[found].number,
                                            !.title = p.title, !.body = p.body]>>
             \o (IF p.labels # {}
                 THEN <<[Call("issues.setLabels") EXCEPT
                            !.num = g.pulls[found].number, !.labels = p.labels]>>
                 ELSE <<>>)
        ELSE <<Call("pulls.list")>>
             \o (IF p.base_branch = None THEN <<Call("repos.get")>> ELSE <<>>)
             \o <<[Call("pulls.create") EXCEPT
                      !.title = p.title, !.body = p.body,
                      !.ref = s.branchInfo[1].name, !.base = base,
                      !.num = g.nextNumber,
                      !.ok = CanCreatePull(g, s.branchInfo[1].name, base)]>>
             \o (IF p.labels # {}
                 THEN <<[Call("issues.addLabels") EXCEPT
                            !.num = g.nextNumber, !.labels = p.labels]>>
                 ELSE <<>>)
             \o CommentCalls(p.original_pr_number, g.nextNumber)

ManagePRRun(e, g, s, p, valid, fault) ==
    IF ~HasCredential(e, "GITHUB_TOKEN") THEN Outcome("MissingCredential", <<>>, s)
    ELSE IF s.branchInfo = None \/ ~s.branchInfo[1].exists
         THEN Outcome("DependencyUnmet", <<>>, s)
    ELSE IF ~valid THEN Outcome("InvalidParameters", <<>>, s)
    ELSE
      LET calls == UpToFailure(Inject(ManagePRPlan(g, s, p), fault))
      IN  IF AllOk(calls)
          THEN Outcome("ok", calls, s)
          ELSE Outcome("RemoteOperationFailed", calls, s)

-----------------------------------------------------------------------------
(* findDocumentation *)

\* pulls.find of findDocumentation
FindDocumentationIsDocsPR(pr, pull_number) ==
    /\ StartsWith(pr.title, ManagePRMarker)
    /\ Includes(pr.body, <<"#">> \o Interp(pull_number))

FindDocumentationFind(pulls, pull_number) ==
    Find({i \in DOMAIN pulls : FindDocumentationIsDocsPR(pulls[i], pull_number)})

-----------------------------------------------------------------------------
(* writeDocumentation *)

\* path.substring(path.lastIndexOf(".")): the path itself when it has no dot.
FileExt(path) ==
    LET dots == {i \in DOMAIN path : path[i] \in {".mdx", ".md", ".ts", ".json"}}
    IN  IF dots = {} THEN path
        ELSE LET k == CHOOSE i \in dots : \A j \in dots : j <= i
             IN  SubSeq(path, k, Len(path))

MinContentLength == 100

\* A gate that does not look for a code example.
ContentRejectedWithoutFenceTest(content) ==
    \/ content.length < MinContentLength
    \/ content.todo
    \/ content.placeholder

\* The quality gate on generated documentation.
ContentRejected(content) ==
    \/ content.length < MinContentLength
    \/ content.todo
    \/ content.placeholder
    \/ ~content.fence

\* A return that leaves out the spread of the former state.
WithGeneratedContentOnly(s, generated) ==
    [EmptyState EXCEPT !.generatedContent = Some(generated)]

\* state: {...state, generatedContent}
WithGeneratedContent(s, generated) ==
    [s EXCEPT !.generatedContent = Some(generated)]

\* path.split("/")
RECURSIVE SplitSlash(_)
SplitSlash(path) ==
    LET slashes == {i \in DOMAIN path : path[i] = "/"}
    IN  IF slashes = {} THEN <<path>>
        ELSE <<SubSeq(path, 1, MinOf(slashes) - 1)>>
             \o SplitSlash(SubSeq(path, MinOf(slashes) + 1, Len(path)))

\* path.split("/").slice(-2, -1)[0], as a template literal prints it.
Category(path) ==
    LET segments == SplitSlash(path)
    IN  IF Len(segments) >= 2 THEN segments[Len(segments) - 1]
        ELSE <<"undefined">>

\* file.content as a condition: neither null nor the empty string.
Truthy(content) == content # None /\ content[1] # <<>>

\* params.context?.template_paths: the context and the paths are optional.
TemplatePathsOf(p) ==
    IF "template_paths" \in DOMAIN p THEN p.template_paths ELSE <<>>

FindSimilarDocs(path, category, templatePaths, s) ==
    LET files == IF s.docInfo = None THEN <<>> ELSE s.docInfo[1].files
        templates ==
            SelectSeq(files, LAMBDA file :
                /\ \E i \in DOMAIN templatePaths : templatePaths[i] = file.path
                /\ Truthy(file.content))
        similarDocs ==
            SelectSeq(files, LAMBDA file :
                /\ file.type = "doc"
                /\ Truthy(file.content)
                /\ file.path # path
                /\ Includes(file.path, <<"/">> \o category \o <<"/">>))
    IN  IF templatePaths # <<>> /\ templates # <<>>
        THEN [i \in DOMAIN templates |-> templates[i].content[1]]
        ELSE [i \in DOMAIN similarDocs |-> similarDocs[i].content[1]]

\* The generation request; the similar documents are the examples of the
\* prompt for a documentation file, and are not sent for mint.json.
GenerationCall(s, p, fault) ==
    [op |-> "openai.chat.completions.create",
     ok |-> fault # 1,
     templates |-> IF p.type = "doc"
                   THEN FindSimilarDocs(p.path, Category(p.path),
                                        TemplatePathsOf(p), s)
                   ELSE <<>>]

WriteDocumentationRun(e, s, p, valid, reply, fault) ==
    IF ~HasCredential(e, "OPENAI_API_KEY") THEN Outcome("MissingCredential", <<>>, s)
    ELSE IF ~valid \/ p.type \notin {"doc", "navigation"}
         THEN Outcome("InvalidParameters", <<>>, s)
    ELSE IF p.type = "doc" /\ ~(\E x \in s.config.matchRules.docExtensions :
                                    FileExt(p.path) = <<x>>)
         THEN Outcome("InvalidParameters", <<>>, s)
    ELSE
      LET calls == <<GenerationCall(s, p, fault)>>
      IN  IF ~AllOk(calls) THEN Outcome("RemoteOperationFailed", calls, s)
          ELSE IF p.type = "navigation"
          THEN Outcome("ok", calls,
                   WithGeneratedContent(s,
                       [content |-> reply, path |-> p.path, type |-> p.type]))
          ELSE IF ContentRejected(reply)
          THEN Outcome("ContentQualityRejected", calls, s)
          ELSE Outcome("ok", calls,
                   WithGeneratedContent(s,
                       [content |-> reply, path |-> p.path, type |-> p.type,
                        update_type |-> IF p.update_type = None THEN "update"
                                        ELSE p.update_type[1]]))

-----------------------------------------------------------------------------
(* Actions. *)

\* An invocation that comes to out: the remote takes the calls that succeeded,
\* the caller keeps the returned state (the old one when the handler threw).
Invoke(name, fault, out) ==
    /\ fault <= Len(out.calls)
    /\ github' = ApplyCalls(github, out.calls)
    /\ state' = out.state
    /\ executed' = IF out.result = "ok" THEN executed \cup {name} ELSE executed

\* Which call of an invocation fails for an outside reason: 0 for none.  No
\* handler issues more than five calls.
Faults == 0..5

\* findDocumentation is between its first call and its return: the actions
\* of a run execute one after the other.
Discovering == fd.pc \in {"prFiles", "docFiles", "navigation"}

\* Every action of a run is invoked with the run's original_pr_number.
getBranch ==
    \E valid \in BOOLEAN, fault \in 0..4 :
        /\ runId = NoId => now <= MaxClock
        /\ ~valid => fault = 0
        /\ Invoke("getBranch", fault,
                  GetBranchRun(env, github, state, runId, valid, fault, now))
        /\ now' = IF runId = NoId /\ state' # state THEN now + 1 ELSE now
        /\ UNCHANGED <<env, runId, openedFor, fd>>

DocPath == <<"docs", "/", "llm", "/", "openai", ".mdx">>
NavPath == <<"mint", ".json">>

CommitPaths == {DocPath}

commitChange ==
    \E path \in CommitPaths, valid \in BOOLEAN, fault \in 0..2 :
        /\ github.commits < MaxCommits
        /\ ~valid => fault = 0
        /\ Invoke("commitChange", fault,
                  CommitChangeRun(env, github, state, path, valid, fault))
        /\ UNCHANGED <<env, now, runId, openedFor, fd>>

Titles == {ManagePRMarker \o <<" for the change">>,
           GetBranchMarker \o <<" for the change">>}

\* The description the caller writes: it refers to the originating change.
BodyFor(id) ==
    IF id = NoId THEN <<"Documentation">>
    ELSE <<"Documentation for ", "#">> \o NumStr(id)

ManagePROptions ==
    {[base_branch |-> None, labels |-> {"documentation"}],
     [base_branch |-> Some(DefaultBranch), labels |-> {}]}

ManagePRParams(title, opt, id, body) ==
    [title |-> title, body |-> body, base_branch |-> opt.base_branch,
     labels |-> opt.labels, original_pr_number |-> id]

\* The pull requests that the calls open, each with the id it was opened for.
Opened(calls, id) ==
    {<<calls[i].num, id>> :
        i \in {j \in DOMAIN calls : calls[j].op = "pulls.create" /\ calls[j].ok}}

managePR ==
    \E title \in Titles, opt \in ManagePROptions, valid \in BOOLEAN,
       fault \in Faults :
        LET out == ManagePRRun(env, github, state,
                       ManagePRParams(title, opt, runId, BodyFor(runId)),
                       valid, fault)
        IN  /\ ~valid => (fault = 0 /\ opt.labels = {}
                          /\ StartsWith(title, ManagePRMarker))
            /\ Invoke("managePR", fault, out)
            /\ openedFor' = openedFor \cup Opened(out.calls, runId)
            /\ UNCHANGED <<env, now, runId, fd>>

GoodReply ==
    [length |-> 500, todo |-> FALSE, placeholder |-> FALSE, fence |-> TRUE]

ShortReply ==
    [length |-> 40, todo |-> FALSE, placeholder |-> FALSE, fence |-> FALSE]

WriteDocumentationInputs ==
    {[path |-> DocPath, type |-> "doc", update_type |-> None, valid |-> TRUE,
      reply |-> GoodReply],
     [path |-> DocPath, type |-> "doc", update_type |-> None, valid |-> TRUE,
      reply |-> ShortReply],
     [path |-> DocPath, type |-> "doc", update_type |-> None, valid |-> FALSE,
      reply |-> GoodReply],
     [path |-> NavPath, type |-> "doc", update_type |-> None, valid |-> TRUE,
      reply |-> GoodReply]}

writeDocumentation ==
    \E p \in WriteDocumentationInputs, fault \in 0..1 :
        /\ ~Discovering
        /\ Invoke("writeDocumentation", fault,
                  WriteDocumentationRun(env, state, p, p.valid, p.reply, fault))
        /\ UNCHANGED <<env, now, runId, openedFor, fd>>

-----------------------------------------------------------------------------
(* findDocumentation, in the steps of its concurrent fetches. *)

\* How many changed paths one discovery is given.
MaxPaths == 2

\* The changed paths findDocumentation is given: source files under src/
\* and files that are not.
SourcePaths ==
    {<<"src", "/", "llm", "/", "openai", ".ts">>,
     <<"src", "/", "App", ".jsx">>,
     <<"lib", "/", "util", ".py">>}

\* Sequences of at most n different elements of S.
RECURSIVE SeqsUpTo(_, _)
SeqsUpTo(S, n) ==
    IF n = 0 THEN {<<>>}
    ELSE LET shorter == SeqsUpTo(S, n - 1)
         IN  shorter \cup
             {Append(q, x) : q \in {r \in shorter : Len(r) = n - 1},
                             x \in S}

PathLists ==
    {q \in SeqsUpTo(SourcePaths, MaxPaths) :
        \A i, j \in DOMAIN q : i # j => q[i] # q[j]}

JsTsExtensions == {".js", ".jsx", ".ts", ".tsx"}


\* path.replace(/^src\//, "docs/").replace(/\.[jt]sx?$/, ".mdx")
DerivedDocPath(path) ==
    LET rooted == IF Len(path) >= 2 /\ path[1] = "src" /\ path[2] = "/"
                  THEN <<"docs", "/">> \o SubSeq(path, 3, Len(path))
                  ELSE path
    IN  IF Len(rooted) > 0 /\ rooted[Len(rooted)] \in JsTsExtensions
        THEN SubSeq(rooted, 1, Len(rooted) - 1) \o <<".mdx">>
        ELSE rooted

\* What repos.getContent comes to: a file, data without content (a
\* directory listing), or an error (no such path, or the remote failing).
FetchOutcomes == {"file", "dir", "error"}

\* The text the remote holds at path on ref, and its base64 encoding.
TextAt(path, ref) == <<"text of ">> \o path \o <<" at ">> \o ref
Base64(text) == [i \in DOMAIN text |-> <<"base64", text[i]>>]
FromBase64(data) == [i \in DOMAIN data |-> data[i][2]]

RemoteFile(path, ref) ==
    [content |-> Base64(TextAt(path, ref)), sha |-> BlobSha]

\* The entry of one file of the existing documentation pull request.
PRFileEntry(path, ref, outcome) ==
    IF outcome = "file"
    THEN [path |-> path, content |-> FromBase64(RemoteFile(path, ref).content)]
    ELSE [path |-> path, content |-> <<>>]

\* The entry of one candidate documentation path; content null is None.
DocFileEntry(docPath, outcome) ==
    IF outcome = "file"
    THEN [path |-> docPath,
          content |-> Some(FromBase64(RemoteFile(docPath, DefaultBranch).content)),
          type |-> "doc",
          lastModified |-> RemoteFile(docPath, DefaultBranch).sha]
    ELSE [path |-> docPath, content |-> None, type |-> "doc"]

\* What the lookup of mint.json pushes onto docFiles.
NavigationEntries(outcome) ==
    IF outcome = "file"
    THEN <<[path |-> NavPath,
            content |-> Some(FromBase64(RemoteFile(NavPath, DefaultBranch).content)),
            type |-> "navigation",
            lastModified |-> RemoteFile(NavPath, DefaultBranch).sha]>>
    ELSE IF outcome = "error"
    THEN <<[path |-> NavPath, content |-> None, type |-> "navigation"]>>
    ELSE <<>>

\* A fetch whose error is not caught rejects the whole Promise.all.
FetchRejectsOnError(outcome) == outcome = "error"

\* The try/catch around each getContent: no outcome of a fetch rejects.
FetchRejects(outcome) == FALSE

\* Results taken in the order in which the fetches completed.
PromiseAllByCompletion(results, order) ==
    [k \in DOMAIN order |-> results[order[k]][1]]

\* Promise.all: the results by index, whatever the order of completion.
PromiseAll(results, order) ==
    [i \in DOMAIN results |-> results[i][1]]

\* pulls.listFiles of a pull request: the files committed to its head.
KnownPaths == <<DocPath, NavPath>>

ListFiles(g, head) ==
    LET Test(p) == [branch |-> head, path |-> p] \in g.files
    IN  SelectSeq(KnownPaths, Test)

Pending(n) == [i \in 1..n |-> None]

FdIdle ==
    [pc |-> "idle", pull_number |-> NoId, paths |-> <<>>, docsPR |-> 0,
     prFiles |-> <<>>, prRes |-> <<>>, prOrder |-> <<>>, existingPR |-> None,
     docRes |-> <<>>, docOrder |-> <<>>, docFiles |-> <<>>,
     navOutcome |-> "none", caught |-> FALSE, calls |-> <<>>, error |-> "none"]

GetContentCalls(paths, ref) ==
    [i \in DOMAIN paths |->
        [Call("repos.getContent") EXCEPT !.path = paths[i], !.ref = ref]]

\* paths.map(async ...): every fetch of the candidate paths is issued.
EnterDocFiles(f) ==
    LET docPaths == [i \in DOMAIN f.paths |-> DerivedDocPath(f.paths[i])]
    IN  [f EXCEPT !.pc = IF f.paths = <<>> THEN "navigation" ELSE "docFiles",
                  !.docRes = Pending(Len(f.paths)),
                  !.calls = @ \o GetContentCalls(docPaths, DefaultBranch)]

\* existingPR is built once every fetch of its files has completed; the
\* promises of the fetches are then out of scope.
LeavePRFiles(f, g) ==
    EnterDocFiles(
        [f EXCEPT !.existingPR =
                      Some([number |-> g.pulls[f.docsPR].number,
                            branch |-> g.pulls[f.docsPR].head,
                            files |-> PromiseAll(f.prRes, f.prOrder)]),
                  !.prRes = <<>>, !.prOrder = <<>>])

\* From the credential check to the first fetches.
FindDocumentationBegin(e, g, pull_number, paths, fault) ==
    LET start == [FdIdle EXCEPT !.pull_number = pull_number, !.paths = paths]
        list == [Call("pulls.list") EXCEPT !.ok = fault # 1]
        found == FindDocumentationFind(g.pulls, pull_number)
        listFiles == [Call("pulls.listFiles") EXCEPT
                         !.num = IF found # 0 THEN g.pulls[found].number ELSE 0,
                         !.ok = fault # 2]
    IN  IF ~HasCredential(e, "GITHUB_TOKEN")
        THEN [start EXCEPT !.pc = "failed", !.error = "MissingCredential"]
        ELSE IF ~list.ok
        THEN [start EXCEPT !.pc = "failed", !.error = "RemoteOperationFailed",
                           !.calls = <<list>>]
        ELSE IF found = 0
        THEN EnterDocFiles([start EXCEPT !.calls = <<list>>])
        ELSE IF ~listFiles.ok
        THEN [start EXCEPT !.pc = "failed", !.error = "RemoteOperationFailed",
                           !.calls = <<list, listFiles>>]
        ELSE LET files == ListFiles(g, g.pulls[found].head)
                 f == [start EXCEPT
                          !.docsPR = found, !.prFiles = files,
                          !.prRes = Pending(Len(files)),
                          !.calls = <<list, listFiles>> \o
                                    GetContentCalls(files, g.pulls[found].head)]
             IN  IF files = <<>> THEN LeavePRFiles(f, g)
                 ELSE [f EXCEPT !.pc = "prFiles"]

Rejected(f) ==
    [f EXCEPT !.pc = "failed", !.error = "RemoteOperationFailed"]

findDocumentation ==
    \E paths \in PathLists, fault \in 0..2 :
        /\ fd.pc = "idle"
        /\ runId # NoId
        /\ fd' = FindDocumentationBegin(env, github, runId, paths, fault)
        /\ fault <= Len(fd'.calls)
        /\ UNCHANGED <<env, github, state, now, runId, executed, openedFor>>

\* One fetch of a file of the existing pull request completes.
FetchPRFile ==
    \E i \in DOMAIN fd.prRes, outcome \in FetchOutcomes :
        /\ fd.pc = "prFiles"
        /\ fd.prRes[i] = None
        /\ LET head == github.pulls[fd.docsPR].head
               f == [fd EXCEPT
                        !.prRes[i] = Some(PRFileEntry(fd.prFiles[i], head, outcome)),
                        !.prOrder = Append(@, i),
                        !.caught = @ \/ outcome = "error"]
           IN  fd' = IF FetchRejects(outcome) THEN Rejected(fd)
                     ELSE IF \A k \in DOMAIN f.prRes : f.prRes[k] # None
                     THEN LeavePRFiles(f, github)
                     ELSE f
        /\ UNCHANGED <<env, github, state, now, runId, executed, openedFor>>

\* One fetch of a candidate documentation path completes.
FetchDocFile ==
    \E i \in DOMAIN fd.docRes, outcome \in FetchOutcomes :
        /\ fd.pc = "docFiles"
        /\ fd.docRes[i] = None
        /\ LET f == [fd EXCEPT
                        !.docRes[i] =
                            Some(DocFileEntry(DerivedDocPath(fd.paths[i]), outcome)),
                        !.docOrder = Append(@, i),
                        !.caught = @ \/ outcome = "error"]
           IN  fd' = IF FetchRejects(outcome) THEN Rejected(fd)
                     ELSE IF \A k \in DOMAIN f.docRes : f.docRes[k] # None
                     THEN [f EXCEPT !.pc = "navigation",
                                    !.docFiles = PromiseAll(f.docRes, f.docOrder)]
                     ELSE f
        /\ UNCHANGED <<env, github, state, now, runId, executed, openedFor>>

\* The lookup of mint.json, then state.docInfo = {files, existingPR}.
FetchNavigation ==
    \E outcome \in FetchOutcomes :
        /\ fd.pc = "navigation"
        /\ fd' = [fd EXCEPT
                     !.pc = "done", !.navOutcome = outcome,
                     !.docRes = <<>>, !.docOrder = <<>>,
                     !.docFiles = @ \o NavigationEntries(outcome),
                     !.calls = Append(@, [Call("repos.getContent") EXCEPT
                                             !.path = NavPath,
                                             !.ref = DefaultBranch])]
        /\ state' = [state EXCEPT !.docInfo =
                        Some([files |-> fd.docFiles \o NavigationEntries(outcome),
                              existingPR |-> fd.existingPR])]
        /\ executed' = executed \cup {"findDocumentation"}
        /\ UNCHANGED <<env, github, now, runId, openedFor>>

-----------------------------------------------------------------------------
(* getCommitInfo *)

\* What the remote tells about the originating pull request.
CommitInfoOf(pull_number) ==
    [files |-> <<[path |-> <<"src", "/", "llm", "/", "openai", ".ts">>,
                  diff |-> <<"@@">>, type |-> "modified"]>>,
     title |-> <<"Change ">> \o NumStr(pull_number),
     description |-> <<>>,
     base_branch |-> DefaultBranch,
     head_branch |-> <<"feature-">> \o NumStr(pull_number)]

\* A getCommitInfo that builds the state anew around commitInfo.
WithCommitInfoAlone(s, commitInfo) ==
    [EmptyState EXCEPT !.commitInfo = Some(commitInfo)]

\* state.commitInfo = commitInfo
WithCommitInfo(s, commitInfo) ==
    [s EXCEPT !.commitInfo = Some(commitInfo)]

GetCommitInfoRun(e, g, s, pull_number, fault) ==
    IF ~HasCredential(e, "GITHUB_TOKEN")
    THEN Outcome("MissingCredential", <<>>, s)
    ELSE
      LET plan == <<[Call("pulls.get") EXCEPT !.num = pull_number],
                    [Call("pulls.listFiles") EXCEPT !.num = pull_number]>>
          calls == UpToFailure(Inject(plan, fault))
      IN  IF AllOk(calls)
          THEN Outcome("ok", calls,
                   WithCommitInfo(s, CommitInfoOf(pull_number)))
          ELSE Outcome("RemoteOperationFailed", calls, s)

getCommitInfo ==
    \E fault \in 0..2 :
        /\ ~Discovering
        /\ runId # NoId
        /\ Invoke("getCommitInfo", fault,
                  GetCommitInfoRun(env, github, state, runId, fault))
        /\ UNCHANGED <<env, now, runId, openedFor, fd>>

\* A new pipeline run: a fresh, empty state against the same remote.
NewRun ==
    /\ ~Discovering
    /\ runId' \in Ids \cup {NoId}
    /\ state' = EmptyState
    /\ executed' = {}
    /\ fd' = FdIdle
    /\ UNCHANGED <<env, github, now, openedFor>>

\* A repository with its default branch and nothing else.
EmptyRemote ==
    [refs |-> (DefaultBranch :> 1), pulls |-> <<>>, nextNumber |-> 43,
     comments |-> {}, ahead |-> {}, files |-> {}, commits |-> 0]

Init ==
    /\ env \in [GITHUB_TOKEN : BOOLEAN, OPENAI_API_KEY : BOOLEAN]
    /\ github = EmptyRemote
    /\ state = EmptyState
    /\ now = 1
    /\ runId \in Ids \cup {NoId}
    /\ executed = {}
    /\ openedFor = {}
    /\ fd = FdIdle

Next ==
    \/ getBranch
    \/ writeDocumentation
    \/ commitChange
    \/ managePR
    \/ NewRun

Spec == Init /\ [][Next]_vars

-----------------------------------------------------------------------------
(* Discovery and generation: getCommitInfo, findDocumentation and          *)
(* writeDocumentation against a remote that may hold a documentation pull  *)
(* request of an earlier run.                                              *)

\* The remote after a run for 42 that committed two files and opened #43.
RemoteWithDocsPR ==
    LET branch == NewBranchName(42, 1)
        Commit(path) == [Call("repos.createOrUpdateFileContents") EXCEPT
                            !.ref = branch, !.path = path]
    IN  ApplyCalls(EmptyRemote,
            <<[Call("git.createRef") EXCEPT !.ref = branch, !.sha = 1],
              Commit(DocPath), Commit(NavPath),
              [Call("pulls.create") EXCEPT
                  !.title = ManagePRMarker \o <<" for the change">>,
                  !.body = BodyFor(42), !.ref = branch,
                  !.base = DefaultBranch, !.num = 43]>>)

DiscoveryInit ==
    /\ env \in [GITHUB_TOKEN : BOOLEAN, OPENAI_API_KEY : BOOLEAN]
    /\ github \in {EmptyRemote, RemoteWithDocsPR}
    /\ state = EmptyState
    /\ now = 1
    /\ runId \in Ids
    /\ executed = {}
    /\ openedFor = {<<github.pulls[i].number, 42>> : i \in DOMAIN github.pulls}
    /\ fd = FdIdle

DiscoveryNext ==
    \/ getCommitInfo
    \/ findDocumentation
    \/ FetchPRFile
    \/ FetchDocFile
    \/ FetchNavigation
    \/ writeDocumentation
    \/ NewRun

DiscoverySpec == DiscoveryInit /\ [][DiscoveryNext]_vars

-----------------------------------------------------------------------------
(* The actions that write to the remote (getBranch, commitChange, managePR) *)
(* in runs that hold both credentials.                                      *)

RemoteWriteInit ==
    /\ env = [GITHUB_TOKEN |-> TRUE, OPENAI_API_KEY |-> TRUE]
    /\ github = EmptyRemote
    /\ state = EmptyState
    /\ now = 1
    /\ runId \in Ids \cup {NoId}
    /\ executed = {}
    /\ openedFor = {}
    /\ fd = FdIdle

RemoteWriteNext ==
    \/ getBranch
    \/ commitChange
    \/ managePR
    \/ NewRun

RemoteWriteSpec == RemoteWriteInit /\ [][RemoteWriteNext]_vars

-----------------------------------------------------------------------------
(* writeDocumentation on the documentation a discovery may have recorded:  *)
(* the selection of the similar documents.                                 *)

\* Known documentation files recorded in docInfo at one time.
MaxDocs == 2

DocEntry(path, content) == [path |-> path, content |-> content, type |-> "doc"]

\* Documentation files a repository may hold: the target itself, a file of
\* its directory, a file below its directory, a file of another directory,
\* a file without content, and the navigation file.
TemplateFiles ==
    {DocEntry(DocPath, Some(TextAt(DocPath, DefaultBranch))),
     DocEntry(<<"docs", "/", "llm", "/", "anthropic", ".mdx">>,
              Some(<<"text of anthropic">>)),
     DocEntry(<<"docs", "/", "llm", "/", "providers", "/", "azure", ".mdx">>,
              Some(<<"text of azure">>)),
     DocEntry(<<"docs", "/", "http", "/", "client", ".mdx">>,
              Some(<<"text of client">>)),
     DocEntry(<<"docs", "/", "llm", "/", "draft", ".mdx">>, None),
     [path |-> NavPath, content |-> Some(<<"{}">>), type |-> "navigation"]}

DocInfos ==
    {[files |-> q, existingPR |-> None] :
        q \in {r \in SeqsUpTo(TemplateFiles, MaxDocs) :
                  \A i, j \in DOMAIN r : i # j => r[i] # r[j]}}

TemplateInit ==
    /\ env = [GITHUB_TOKEN |-> TRUE, OPENAI_API_KEY |-> TRUE]
    /\ github = EmptyRemote
    /\ state \in {[EmptyState EXCEPT !.docInfo = Some(d)] : d \in DocInfos}
    /\ now = 1
    /\ runId \in Ids
    /\ executed = {"findDocumentation"}
    /\ openedFor = {}
    /\ fd = FdIdle

TemplateNext ==
    \/ writeDocumentation
    \/ NewRun

TemplateSpec == TemplateInit /\ [][TemplateNext]_vars

-----------------------------------------------------------------------------
(* findDocumentation alone, with every remote call answered in the end: a  *)
(* fetch that was issued completes, with a file, a directory or an error.  *)

FetchInit ==
    /\ env \in [GITHUB_TOKEN : BOOLEAN, OPENAI_API_KEY : {TRUE}]
    /\ github \in {EmptyRemote, RemoteWithDocsPR}
    /\ state = EmptyState
    /\ now = 1
    /\ runId \in Ids
    /\ executed = {}
    /\ openedFor = {<<github.pulls[i].number, 42>> : i \in DOMAIN github.pulls}
    /\ fd = FdIdle

FetchNext ==
    \/ findDocumentation
    \/ FetchPRFile
    \/ FetchDocFile
    \/ FetchNavigation
    \/ NewRun

FetchFairSpec ==
    /\ FetchInit
    /\ [][FetchNext]_vars
    /\ WF_vars(FetchPRFile)
    /\ WF_vars(FetchDocFile)
    /\ WF_vars(FetchNavigation)

-----------------------------------------------------------------------------
(* Properties.  Each is stated over the handlers as they would run in the   *)
(* current state, for every input of the sets quantified over.             *)

CallsOf(calls, op) == {i \in DOMAIN calls : calls[i].op = op}

\* A pull request that carries the documentation marker and refers to id.
IsDocumentationPR(pr, id) ==
    /\ StartsWith(pr.title, ManagePRMarker)
    /\ Includes(pr.body, <<"#">> \o Interp(id))

DocumentationPRs(id) ==
    {i \in DOMAIN github.pulls : IsDocumentationPR(github.pulls[i], id)}

BranchFor(id) == <<"docs", "/", "update-pr-">> \o NumStr(id)

\* The start of a run for id with both credentials set.
RunStarts(id) ==
    /\ runId = id
    /\ executed = {}
    /\ state = EmptyState
    /\ env.GITHUB_TOKEN
    /\ env.OPENAI_API_KEY

\* The four actions in pipeline order for id, from an empty state on remote
\* g, with valid parameters and no call failing for an outside reason.
Pipeline(g, id, title, body) ==
    LET gb == GetBranchRun(env, g, EmptyState, id, TRUE, 0, now)
        g1 == ApplyCalls(g, gb.calls)
        wd == WriteDocumentationRun(env, gb.state,
                  [path |-> DocPath, type |-> "doc", update_type |-> None],
                  TRUE, GoodReply, 0)
        cc == CommitChangeRun(env, g1, wd.state, DocPath, TRUE, 0)
        g2 == ApplyCalls(g1, cc.calls)
        mp == ManagePRRun(env, g2, cc.state,
                  ManagePRParams(title, [base_branch |-> None, labels |-> {}],
                                 id, body),
                  TRUE, 0)
    IN  [getBranch |-> gb, writeDocumentation |-> wd, commitChange |-> cc,
         managePR |-> mp, github |-> ApplyCalls(g2, mp.calls)]

\* C1: when a run for id has created branch docs/update-pr-<id> and opened a
\* pull request from it, a second run of the pipeline with the same id and
\* the same title and body creates no branch and no pull request, commits to
\* the branch of the first run and updates the pull request of the first run.
C1_SecondRunConverges ==
    \A id \in Ids : \A i \in DOMAIN github.pulls :
        LET pr == github.pulls[i]
            run == Pipeline(github, id, pr.title, pr.body)
            gb == run.getBranch.calls
            cc == run.commitChange.calls
            mp == run.managePR.calls
        IN  (/\ RunStarts(id)
             /\ <<pr.number, id>> \in openedFor
             /\ pr.head = BranchFor(id))
            =>
            /\ run.getBranch.result = "ok"
            /\ CallsOf(gb, "git.createRef") = {}
            /\ run.commitChange.result = "ok"
            /\ \A k \in CallsOf(cc, "repos.createOrUpdateFileContents") :
                  cc[k].ref = pr.head
            /\ CallsOf(mp, "pulls.create") = {}
            /\ \E k \in CallsOf(mp, "pulls.update") :
                  mp[k].ok /\ mp[k].num = pr.number
            /\ DOMAIN run.github.refs = DOMAIN github.refs
            /\ Len(run.github.pulls) = Len(github.pulls)

\* C2: when an open pull request carries the documentation marker and refers
\* to id, getBranch for id issues no createRef, returns that pull request's
\* head ref with the ref's current tip, and returns the same name when it is
\* invoked again.
C2_ExistingPRBranchReturned ==
    \A id \in Ids :
        LET docs == DocumentationPRs(id)
            out == GetBranchRun(env, github, state, id, TRUE, 0, now)
            again == GetBranchRun(env, ApplyCalls(github, out.calls),
                                  out.state, id, TRUE, 0, now)
        IN  (docs # {} /\ env.GITHUB_TOKEN) =>
            LET pr == github.pulls[MinOf(docs)]
            IN  /\ CallsOf(out.calls, "git.createRef") = {}
                /\ out.result = "ok" =>
                      /\ out.state.branchInfo =
                            Some([name |-> pr.head, sha |-> github.refs[pr.head],
                                  exists |-> TRUE])
                      /\ again.result = "ok"
                      /\ again.state.branchInfo[1].name = pr.head

C4_UpdateOrCreate ==
    (env.GITHUB_TOKEN /\ state.branchInfo # None) =>
    \A id \in Ids \cup {NoId}, title \in Titles, opt \in ManagePROptions,
       fault \in Faults :
        LET p == ManagePRParams(title, opt, id, BodyFor(id))
            out == ManagePRRun(env, github, state, p, TRUE, fault)
            docs == DocumentationPRs(id)
            updates == CallsOf(out.calls, "pulls.update")
            creates == CallsOf(out.calls, "pulls.create")
        IN  /\ Cardinality(updates) + Cardinality(creates) <= 1
            /\ fault = 0 => Cardinality(updates) + Cardinality(creates) = 1
            /\ docs # {} => creates = {}
            /\ docs = {} => updates = {}
            /\ \A k \in updates :
                  /\ out.calls[k].num = github.pulls[MinOf(docs)].number
                  /\ out.calls[k].title = title
                  /\ out.calls[k].body = BodyFor(id)
            /\ \A k \in creates :
                  /\ out.calls[k].ref = state.branchInfo[1].name
                  /\ out.calls[k].title = title
                  /\ out.calls[k].body = BodyFor(id)

\* managePR has returned in this run, and the pull request opened for the
\* run's id from the run's branch is the one the marker and reference select.
C4_Witness ==
    /\ "managePR" \in executed
    /\ state.branchInfo # None
    /\ DocumentationPRs(runId) # {}
    /\ LET pr == github.pulls[MinOf(DocumentationPRs(runId))]
       IN  /\ <<pr.number, runId>> \in openedFor
           /\ pr.head = state.branchInfo[1].name

\* C5: a managePR that gets past its checks issues at most one
\* createComment; a comment is issued only with an original_pr_number, on
\* that number, after a pulls.create that succeeded, and names the created
\* pull request.  When an open pull request matches, no comment is issued.
\* When managePR creates a pull request and returns, it has issued exactly
\* one comment if an original_pr_number was given and none otherwise.
C5_CommentOnlyOnCreateWithId ==
    (env.GITHUB_TOKEN /\ state.branchInfo # None) =>
    \A id \in Ids \cup {NoId}, opt \in ManagePROptions, fault \in Faults :
        LET title == ManagePRMarker \o <<" for the change">>
            p == ManagePRParams(title, opt, id, BodyFor(id))
            out == ManagePRRun(env, github, state, p, TRUE, fault)
            comments == CallsOf(out.calls, "issues.createComment")
            created == {k \in CallsOf(out.calls, "pulls.create") : out.calls[k].ok}
        IN  /\ Cardinality(comments) <= 1
            /\ \A k \in comments :
                  /\ id # NoId
                  /\ out.calls[k].num = id
                  /\ \E j \in created :
                        /\ j < k
                        /\ out.calls[k].body = CommentBody(out.calls[j].num)
            /\ DocumentationPRs(id) # {} => comments = {}
            /\ (out.result = "ok" /\ created # {}) =>
                  (Cardinality(comments) = 1 <=> id # NoId)

\* The originating pull request of the run carries the comment that names
\* the pull request opened for it.
C5_Witness ==
    /\ runId # NoId
    /\ "managePR" \in executed
    /\ \E c \in github.comments, o \in openedFor :
          /\ c.issue = runId
          /\ o[2] = runId
          /\ c.body = CommentBody(o[1])

\* C6: getBranch, managePR and findDocumentation select the same open pull
\* request for every id, or all three select none.
C6_SamePredicate ==
    \A id \in Ids :
        /\ GetBranchFind(github.pulls, id) = ManagePRFind(github.pulls, id)
        /\ ManagePRFind(github.pulls, id) =
              FindDocumentationFind(github.pulls, id)

\* C7: a run for id never gets from getBranch the branch of a pull request
\* that was opened for another id, and its managePR never updates a pull
\* request that was opened for another id.
C7_IdsDoNotCross ==
    \A id \in Ids, title \in Titles :
        LET gb == GetBranchRun(env, github, state, id, TRUE, 0, now)
            mp == ManagePRRun(env, github, state,
                      ManagePRParams(title, [base_branch |-> None, labels |-> {}],
                                     id, BodyFor(id)),
                      TRUE, 0)
        IN  runId = id =>
            /\ \A k \in CallsOf(mp.calls, "pulls.update"), o \in openedFor :
                  o[1] = mp.calls[k].num => o[2] = id
            /\ gb.result = "ok" =>
                  \A i \in DOMAIN github.pulls, o \in openedFor :
                      (/\ o[1] = github.pulls[i].number
                       /\ github.pulls[i].head = gb.state.branchInfo[1].name)
                      => o[2] = id

\* C8: when branch docs/update-pr-<id> exists and no pull request has it as
\* head, a run for id gets through getBranch and completes with a pull
\* request opened from that branch, no other branch having been created.
C8_BranchWithoutPRTolerated ==
    \A id \in Ids, title \in Titles :
        LET run == Pipeline(github, id, title, BodyFor(id))
        IN  (/\ RunStarts(id)
             /\ HasRef(github, BranchFor(id))
             /\ \A i \in DOMAIN github.pulls :
                   github.pulls[i].head # BranchFor(id))
            =>
            /\ run.getBranch.result = "ok"
            /\ run.managePR.result = "ok"
            /\ DOMAIN run.github.refs = DOMAIN github.refs
            /\ \E i \in DOMAIN run.github.pulls :
                  run.github.pulls[i].head = BranchFor(id)

\* C9: with both credentials set and valid parameters, each of
\* writeDocumentation, commitChange and managePR, invoked while branchInfo is
\* absent, fails with the dependency error, issues no call and leaves the
\* state as it was.
C9_DependencyRejected ==
    \A title \in Titles, opt \in ManagePROptions,
       p \in {q \in WriteDocumentationInputs : q.valid} :
        LET wd == WriteDocumentationRun(env, state, p, TRUE, p.reply, 0)
            cc == CommitChangeRun(env, github, state, DocPath, TRUE, 0)
            mp == ManagePRRun(env, github, state,
                      ManagePRParams(title, opt, runId, BodyFor(runId)), TRUE, 0)
        IN  (/\ state.branchInfo = None
             /\ env.GITHUB_TOKEN
             /\ env.OPENAI_API_KEY)
            =>
            \A out \in {wd, cc, mp} :
                /\ out.result = "DependencyUnmet"
                /\ out.calls = <<>>
                /\ out.state = state

\* C10: managePR creates or updates a pull request only in a run in which
\* getBranch and commitChange have returned, and does not return in a run
\* in which commitChange has not.
C10_PRRequiresCommitInRun ==
    \A title \in Titles, opt \in ManagePROptions :
        LET out == ManagePRRun(env, github, state,
                       ManagePRParams(title, opt, runId, BodyFor(runId)),
                       TRUE, 0)
            acted == {k \in CallsOf(out.calls, "pulls.update")
                              \cup CallsOf(out.calls, "pulls.create") :
                         out.calls[k].ok}
        IN  /\ acted # {} => {"getBranch", "commitChange"} \subseteq executed
            /\ "commitChange" \notin executed => out.result # "ok"

\* What the remote holds in g is still there in g2.
Preserved(g, g2) ==
    /\ DOMAIN g.refs \subseteq DOMAIN g2.refs
    /\ \A r \in g.ahead : r \in g2.ahead /\ g2.refs[r] # g2.refs[DefaultBranch]
    /\ g.files \subseteq g2.files
    /\ g.comments \subseteq g2.comments
    /\ {g.pulls[i].number : i \in DOMAIN g.pulls}
          \subseteq {g2.pulls[i].number : i \in DOMAIN g2.pulls}
    /\ g.commits <= g2.commits

\* The write of call c is in g.
Written(g, c) ==
    CASE c.op = "git.createRef" -> HasRef(g, c.ref)
      [] c.op = "repos.createOrUpdateFileContents" ->
            [branch |-> c.ref, path |-> c.path] \in g.files
      [] c.op = "pulls.create" ->
            \E i \in DOMAIN g.pulls :
                g.pulls[i].number = c.num /\ g.pulls[i].head = c.ref
      [] c.op = "issues.createComment" ->
            [issue |-> c.num, body |-> c.body] \in g.comments
      [] OTHER -> TRUE

\* A call of the outcome that failed is the last one it issued, and the
\* action failed.
FailsAtFailedCall(out) ==
    \A i \in DOMAIN out.calls :
        ~out.calls[i].ok => (i = Len(out.calls) /\ out.result # "ok")

\* A failed action hands back the state it was given; the remote after the
\* action holds what it held before and every write the action completed.
NothingUndone(out) ==
    LET after == ApplyCalls(github, out.calls)
    IN  /\ out.result # "ok" => out.state = state
        /\ Preserved(github, after)
        /\ \A i \in DOMAIN out.calls :
              out.calls[i].ok => Written(after, out.calls[i])

WithSampleBranch(s) ==
    [s EXCEPT !.branchInfo =
        Some([name |-> NewBranchName(runId, now), sha |-> 1, exists |-> TRUE])]

\* The outcome of an action stopped by MissingCredential on state s.
StoppedForCredential(out, s) ==
    /\ out.result = "MissingCredential"
    /\ out.calls = <<>>
    /\ out.state = s

\* C12: an action invoked while its credential is absent (GITHUB_TOKEN for
\* getCommitInfo, findDocumentation, getBranch, commitChange and managePR,
\* OPENAI_API_KEY for writeDocumentation) fails with MissingCredential
\* before it issues any remote call and leaves the pipeline state as it was,
\* whatever its parameters and whatever the state already holds.
C12_MissingCredentialStopsFirst ==
    /\ ~env.GITHUB_TOKEN =>
          /\ \A s \in {state, WithSampleBranch(state)},
                valid \in BOOLEAN, fault \in 0..1 :
                /\ StoppedForCredential(
                       GetCommitInfoRun(env, github, s, runId, fault), s)
                /\ \A id \in {runId, NoId} : StoppedForCredential(
                       GetBranchRun(env, github, s, id, valid, fault, now), s)
                /\ StoppedForCredential(
                       CommitChangeRun(env, github, s, DocPath, valid, fault), s)
                /\ \A opt \in ManagePROptions : StoppedForCredential(
                       ManagePRRun(env, github, s,
                           ManagePRParams(ManagePRMarker \o <<" for the change">>,
                                          opt, runId, BodyFor(runId)),
                           valid, fault), s)
          /\ \A paths \in PathLists, fault \in 0..1 :
                LET f == FindDocumentationBegin(env, github, runId, paths, fault)
                IN  f.pc = "failed" /\ f.error = "MissingCredential"
                    /\ f.calls = <<>>
          /\ fd.pc \in {"idle", "failed"}
          /\ fd.calls = <<>>
          /\ github \in {EmptyRemote, RemoteWithDocsPR}
          /\ state.commitInfo = None /\ state.docInfo = None
    /\ ~env.OPENAI_API_KEY =>
          /\ \A s \in {state, WithSampleBranch(state)},
                p \in WriteDocumentationInputs, fault \in 0..1 :
                StoppedForCredential(
                    WriteDocumentationRun(env, s, p, p.valid, p.reply, fault), s)
          /\ state.generatedContent = None

\* findDocumentation was invoked without GITHUB_TOKEN and stopped.
C12_Witness ==
    /\ ~env.GITHUB_TOKEN
    /\ fd.pc = "failed"
    /\ fd.error = "MissingCredential"
    /\ fd.paths # <<>>

\* A name without a slash and without a space (each is a token of its own
\* in the names getBranch builds).
SafeRefSegment(name) == \A i \in DOMAIN name : name[i] \notin {"/", " "}

\* C13: the branch name getBranch passes to git.createRef is safe as a
\* single ref segment, for every originating id and without one: it holds
\* no slash and no space; so is every branch the runs have created.
C13_BranchNameIsSafeSegment ==
    /\ env.GITHUB_TOKEN =>
          \A id \in Ids \cup {NoId} :
              LET out == GetBranchRun(env, github, state, id, TRUE, 0, now)
              IN  \A i \in CallsOf(out.calls, "git.createRef") :
                      SafeRefSegment(out.calls[i].ref)
    /\ \A r \in DOMAIN github.refs : SafeRefSegment(r)

\* The entries of kind doc among the files of docInfo.
DocEntries(files) == SelectSeq(files, LAMBDA x : x.type = "doc")

\* C14: in findDocumentation the failure of a single content fetch, of a
\* file of the existing documentation pull request or of a candidate
\* documentation path, is caught and recorded as empty or absent content of
\* that path: findDocumentation fails only before its first content fetch
\* completes (credential, pulls.list, pulls.listFiles), and when it is done
\* docInfo holds one doc entry for each changed path, in their order, each
\* with the decoded content or none, and existingPR one entry for each file
\* of the pull request, each with the decoded content or the empty text.
C14_FetchFailureIsCaught ==
    /\ fd.pc = "failed" =>
          /\ ~fd.caught
          /\ CallsOf(fd.calls, "repos.getContent") = {}
    /\ fd.pc = "done" =>
          /\ state.docInfo # None
          /\ LET docs == DocEntries(state.docInfo[1].files)
             IN  /\ Len(docs) = Len(fd.paths)
                 /\ \A i \in DOMAIN docs :
                       /\ docs[i].path = DerivedDocPath(fd.paths[i])
                       /\ docs[i].content \in
                             {None, Some(TextAt(docs[i].path, DefaultBranch))}
          /\ LET pr == state.docInfo[1].existingPR
             IN  pr # None =>
                    /\ Len(pr[1].files) = Len(fd.prFiles)
                    /\ \A i \in DOMAIN pr[1].files :
                          /\ pr[1].files[i].path = fd.prFiles[i]
                          /\ pr[1].files[i].content \in
                                {<<>>, TextAt(fd.prFiles[i], pr[1].branch)}

\* Discovery is done although a fetch failed: one changed path is recorded
\* without content next to one whose content was read.
C14_Witness ==
    /\ fd.pc = "done"
    /\ fd.caught
    /\ state.docInfo # None
    /\ \E i, j \in DOMAIN fd.paths :
          /\ state.docInfo[1].files[i].content = None
          /\ state.docInfo[1].files[j].content # None

\* The entries of kind navigation among the files of docInfo.
NavigationEntriesOf(files) == SelectSeq(files, LAMBDA x : x.type = "navigation")

\* C15: when findDocumentation is done, docInfo.files holds exactly one
\* entry of kind navigation, at the path mint.json; its content is the
\* decoded file when the lookup returned a file and absent for every other
\* outcome of the lookup.
C15_OneNavigationEntry ==
    fd.pc = "done" =>
        LET nav == NavigationEntriesOf(state.docInfo[1].files)
        IN  /\ Len(nav) = 1
            /\ nav[1].path = NavPath
            /\ nav[1].content =
                  IF fd.navOutcome = "file"
                  THEN Some(TextAt(NavPath, DefaultBranch))
                  ELSE None

\* C16: what findDocumentation writes does not depend on the order in which
\* its concurrent fetches complete: once all fetches of the candidate paths
\* have completed, in whatever order, entry i of the files is the result of
\* the fetch of input path i; entry i of existingPR.files is that of file i
\* of the pull request's file list; and docInfo is written from these.
C16_OrderOfInputsNotOfCompletion ==
    /\ fd.pc = "navigation" =>
          /\ Len(fd.docFiles) = Len(fd.paths)
          /\ \A i \in DOMAIN fd.docFiles : fd.docFiles[i] = fd.docRes[i][1]
    /\ fd.pc \in {"navigation", "done"} =>
          /\ \A i \in DOMAIN fd.paths :
                fd.docFiles[i].path = DerivedDocPath(fd.paths[i])
          /\ fd.existingPR # None =>
                /\ Len(fd.existingPR[1].files) = Len(fd.prFiles)
                /\ \A i \in DOMAIN fd.prFiles :
                      fd.existingPR[1].files[i].path = fd.prFiles[i]
    /\ fd.pc = "done" =>
          state.docInfo = Some([files |-> fd.docFiles,
                                existingPR |-> fd.existingPR])

\* All fetches of the candidate paths have completed, a later path's first,
\* with different results.
C16_Witness ==
    /\ fd.pc = "navigation"
    /\ Len(fd.docOrder) >= 2
    /\ fd.docOrder[1] > fd.docOrder[2]
    /\ fd.docFiles[1].content # fd.docFiles[2].content

\* Generated texts around the minimum length, with and without each marker.
SampleReplies ==
    [length : {40, 99, 100, 500}, todo : BOOLEAN, placeholder : BOOLEAN,
     fence : BOOLEAN]

\* writeDocumentation for a documentation file, the generator answering
\* reply.
WriteDoc(reply) ==
    WriteDocumentationRun(env, state,
        [path |-> DocPath, type |-> "doc", update_type |-> None],
        TRUE, reply, 0)

\* C17: for kind doc, writeDocumentation fails and leaves the state (so
\* generatedContent) as it was for every generated text shorter than 100
\* characters, holding 'TODO' or 'placeholder', or without a code fence, and
\* stores every other text in generatedContent; the 40-character text
\* without a fence is rejected, the 500-character text with a fence and no
\* marker is accepted; what a run holds as generated doc content passed.
C17_ContentQualityGate ==
    /\ env.OPENAI_API_KEY =>
          /\ \A reply \in SampleReplies :
                LET out == WriteDoc(reply)
                IN  IF \/ reply.length < 100
                       \/ reply.todo
                       \/ reply.placeholder
                       \/ ~reply.fence
                    THEN /\ out.result = "ContentQualityRejected"
                         /\ out.state = state
                    ELSE /\ out.result = "ok"
                         /\ out.state.generatedContent # None
                         /\ out.state.generatedContent[1].content = reply
                         /\ out.state.generatedContent[1].path = DocPath
          /\ WriteDoc(ShortReply).result = "ContentQualityRejected"
          /\ WriteDoc(GoodReply).result = "ok"
    /\ state.generatedContent # None =>
          LET c == state.generatedContent[1].content
          IN  c.length >= 100 /\ ~c.todo /\ ~c.placeholder /\ c.fence

\* A run holds the accepted 500-character text as generated doc content.
C17_Witness ==
    /\ env.OPENAI_API_KEY
    /\ "writeDocumentation" \in executed
    /\ state.generatedContent # None
    /\ state.generatedContent[1].content = GoodReply
    /\ state.generatedContent[1].type = "doc"

\* C18: the documentation path derived from a changed path replaces the
\* leading 'src/' with 'docs/' and the extension with '.mdx', so that every
\* candidate path findDocumentation records lies under docs/ and ends in
\* .mdx.
C18_DerivedPathUnderDocs ==
    state.docInfo # None =>
        LET docs == DocEntries(state.docInfo[1].files)
        IN  \A i \in DOMAIN docs :
                /\ docs[i].path = DerivedDocPath(fd.paths[i])
                /\ StartsWith(docs[i].path, <<"docs", "/">>)
                /\ docs[i].path[Len(docs[i].path)] = ".mdx"

\* The fields of the pipeline state that are present.
Present(s) == {f \in DOMAIN s : s[f] # None}

\* The states every action hands back, successful or failed, on state s.
HandedBack(s) ==
    {GetCommitInfoRun(env, github, s, runId, fault).state : fault \in 0..1}
    \cup {GetBranchRun(env, github, s, id, TRUE, fault, now).state :
             id \in {runId, NoId}, fault \in 0..1}
    \cup {WriteDocumentationRun(env, s, p, p.valid, p.reply, fault).state :
             p \in WriteDocumentationInputs, fault \in 0..1}
    \cup {CommitChangeRun(env, github, s, DocPath, TRUE, fault).state :
             fault \in {0, 2}}
    \cup {ManagePRRun(env, github, s,
              ManagePRParams(ManagePRMarker \o <<" for the change">>,
                             opt, runId, BodyFor(runId)),
              TRUE, fault).state : opt \in ManagePROptions, fault \in 0..1}

\* C19: within one run the pipeline state only grows: a field among
\* commitInfo, docInfo, branchInfo and generatedContent that is present is
\* present in the state every action hands back, whether the action succeeds
\* or fails, and stays present over every step of the run (findDocumentation
\* writes docInfo into the state it was given); only a new run starts from
\* the empty state.
C19_StateGrowsMonotonically ==
    /\ [](\A s \in {state, WithSampleBranch(state)} :
              \A t \in HandedBack(s) : Present(s) \subseteq Present(t))
    /\ [][~NewRun => Present(state) \subseteq Present(state')]_vars

\* A run in which three actions in turn each added their field.
C19_Witness ==
    /\ state.commitInfo # None
    /\ state.docInfo # None
    /\ state.generatedContent # None
    /\ {"getCommitInfo", "findDocumentation", "writeDocumentation"}
          \subseteq executed

\* C20: branchInfo has one value per run: once getBranch has set it, a
\* second getBranch of the run, with the run's id or without an id, that
\* returns leaves branchInfo.name as it is and creates no branch.
C20_OneBranchPerRun ==
    (env.GITHUB_TOKEN /\ state.branchInfo # None /\ "getBranch" \in executed) =>
        \A id \in {runId, NoId} :
            LET out == GetBranchRun(env, github, state, id, TRUE, 0, now)
            IN  out.result = "ok" =>
                   /\ out.state.branchInfo[1].name = state.branchInfo[1].name
                   /\ \A i \in CallsOf(out.calls, "git.createRef") :
                          ~out.calls[i].ok

\* C21: in a run for id N with no documentation pull request open for N,
\* the pull request managePR opens is titled with the documentation marker
\* and its body refers to '#N', whatever title and body the caller passes,
\* so that the search of a later run selects it.
C21_OpenedPRIsFindable ==
    (/\ env.GITHUB_TOKEN
     /\ state.branchInfo # None
     /\ runId # NoId
     /\ DocumentationPRs(runId) = {})
    =>
    \A title \in Titles, body \in {BodyFor(runId), BodyFor(NoId)},
       opt \in ManagePROptions :
        LET out == ManagePRRun(env, github, state,
                       ManagePRParams(title, opt, runId, body), TRUE, 0)
            after == ApplyCalls(github, out.calls)
        IN  \A k \in CallsOf(out.calls, "pulls.create") :
                out.calls[k].ok =>
                   /\ StartsWith(out.calls[k].title, ManagePRMarker)
                   /\ Includes(out.calls[k].body, <<"#">> \o Interp(runId))
                   /\ ManagePRFind(after.pulls, runId) # 0

\* C22: commitInfo is set once: when it is present, no action of the run,
\* a second getCommitInfo (for whichever pull request it is asked about)
\* included, hands back a state with another commitInfo.
C22_CommitInfoSetOnce ==
    state.commitInfo # None =>
        /\ \A t \in HandedBack(state) : t.commitInfo = state.commitInfo
        /\ \A pull_number \in Ids :
              GetCommitInfoRun(env, github, state, pull_number, 0)
                  .state.commitInfo = state.commitInfo

\* The directory of a path: its second-to-last segment, if it has one.
ParentSegment(path) ==
    LET segments == SplitSlash(path)
    IN  IF Len(segments) >= 2 THEN Some(segments[Len(segments) - 1]) ELSE None

\* The selection as it is specified: the files at the template paths when
\* any of them has content, else the documentation files of the target's
\* directory, the target and the files without content left out.
SpecifiedSelection(path, templatePaths, files) ==
    LET atPaths ==
            SelectSeq(files, LAMBDA file :
                /\ \E i \in DOMAIN templatePaths : templatePaths[i] = file.path
                /\ file.content # None)
        sameParent ==
            SelectSeq(files, LAMBDA file :
                /\ file.type = "doc"
                /\ file.content # None
                /\ file.path # path
                /\ ParentSegment(file.path) = ParentSegment(path))
    IN  IF templatePaths # <<>> /\ atPaths # <<>>
        THEN [i \in DOMAIN atPaths |-> atPaths[i].content[1]]
        ELSE [i \in DOMAIN sameParent |-> sameParent[i].content[1]]

\* Template paths a caller may pass: none, a file with content, a file
\* without, two files.
TemplatePathChoices ==
    {<<>>,
     <<<<"docs", "/", "http", "/", "client", ".mdx">>>>,
     <<<<"docs", "/", "llm", "/", "draft", ".mdx">>>>,
     <<<<"docs", "/", "http", "/", "client", ".mdx">>,
       <<"docs", "/", "llm", "/", "anthropic", ".mdx">>>>}

\* C23: the similar documents writeDocumentation sends with its request for
\* a documentation file are the specified selection: the contents of the
\* known files at the template paths when template paths are given and one
\* of them has content; else the contents of the known documentation files
\* whose second-to-last segment is that of the target, without the target
\* and without files that have no content.
C23_TemplateSelection ==
    state.docInfo # None =>
        \A templatePaths \in TemplatePathChoices :
            LET p == [path |-> DocPath, type |-> "doc", update_type |-> None,
                      template_paths |-> templatePaths]
                out == WriteDocumentationRun(env, state, p, TRUE, GoodReply, 0)
            IN  out.calls # <<>> =>
                   out.calls[1].templates =
                       SpecifiedSelection(DocPath, templatePaths,
                                          state.docInfo[1].files)

\* C24: a writeDocumentation that returns has put in generatedContent a
\* record with the path and the type of the invocation, the generated text
\* as content, and an update_type that is create or update, for a
\* documentation file and for the navigation file alike.
C24_GeneratedContentRecord ==
    env.OPENAI_API_KEY =>
        \A type \in {"doc", "navigation"},
           update_type \in {None, Some("create"), Some("update")} :
            LET path == IF type = "doc" THEN DocPath ELSE NavPath
                out == WriteDocumentationRun(env, state,
                           [path |-> path, type |-> type,
                            update_type |-> update_type],
                           TRUE, GoodReply, 0)
                generated == out.state.generatedContent[1]
            IN  /\ out.result = "ok"
                /\ generated.path = path
                /\ generated.type = type
                /\ generated.content = GoodReply
                /\ "update_type" \in DOMAIN generated
                /\ generated.update_type \in {"create", "update"}

\* State t differs from state s in no field outside fields.
OnlyChanges(s, t, fields) ==
    /\ DOMAIN t = DOMAIN s
    /\ \A f \in DOMAIN s \ fields : t[f] = s[f]

\* The outcome changes no field outside fields, and none when it failed.
KeepsFrame(out, s, fields) ==
    IF out.result = "ok" THEN OnlyChanges(s, out.state, fields)
    ELSE out.state = s

\* C25: each action changes at most its own field of the state and leaves
\* every other field, config included, as it was: getCommitInfo commitInfo,
\* findDocumentation docInfo, getBranch branchInfo, writeDocumentation
\* generatedContent, commitChange and managePR none; an action that fails
\* changes none.  For findDocumentation this is every step from its start
\* to its end or failure.
C25_EachActionItsOwnField ==
    /\ [](\A s \in {state, WithSampleBranch(state)} :
            /\ \A fault \in 0..1 :
                  /\ KeepsFrame(GetCommitInfoRun(env, github, s, runId, fault),
                                s, {"commitInfo"})
                  /\ KeepsFrame(GetBranchRun(env, github, s, runId, TRUE, fault, now),
                                s, {"branchInfo"})
                  /\ \A p \in WriteDocumentationInputs \cup
                            {[path |-> NavPath, type |-> "navigation",
                              update_type |-> None, valid |-> TRUE,
                              reply |-> GoodReply]} :
                        KeepsFrame(WriteDocumentationRun(env, s, p, p.valid,
                                                         p.reply, fault),
                                   s, {"generatedContent"})
                  /\ KeepsFrame(
                        ManagePRRun(env, github, s,
                            ManagePRParams(ManagePRMarker \o <<" for the change">>,
                                           [base_branch |-> None, labels |-> {}],
                                           runId, BodyFor(runId)),
                            TRUE, fault),
                        s, {})
            /\ \A fault \in {0, 2} :
                  KeepsFrame(CommitChangeRun(env, github, s, DocPath, TRUE, fault),
                             s, {}))
    /\ [][(fd' # fd /\ ~NewRun) =>
             /\ OnlyChanges(state, state', {"docInfo"})
             /\ fd'.pc # "done" => state' = state]_vars

\* findDocumentation has failed in a run that holds commitInfo and
\* generatedContent: both are as they were and docInfo is not set.
C25_Witness ==
    /\ fd.pc = "failed"
    /\ fd.error = "RemoteOperationFailed"
    /\ state.commitInfo = Some(CommitInfoOf(runId))
    /\ state.generatedContent # None
    /\ state.docInfo = None
    /\ state.config = EmptyState.config

\* C26: every file write of commitChange goes to the branch named in
\* branchInfo.name and to no other, the default branch included; an invocation
\* issues one write, and none when it is stopped before its remote calls; the
\* write carries the prior blob sha exactly when the lookup of the path on
\* that branch returned an existing file.
C26_WriteTargetsRecordedBranch ==
    \A s \in {state, WithSampleBranch(state)}, path \in {DocPath, NavPath},
       valid \in BOOLEAN, fault \in 0..2 :
        LET out == CommitChangeRun(env, github, s, path, valid, fault)
            writes == CallsOf(out.calls, "repos.createOrUpdateFileContents")
            lookups == CallsOf(out.calls, "repos.getContent")
        IN  /\ Cardinality(writes) <= 1
            /\ Cardinality(writes) = 1 <=>
                  out.result \in {"ok", "RemoteOperationFailed"}
            /\ \A i \in writes :
                  LET write == out.calls[i]
                  IN  /\ write.ref = s.branchInfo[1].name
                      /\ write.ref # DefaultBranch
                      /\ write.path = path
                      /\ write.sha # 0 <=>
                            \E j \in lookups :
                                /\ out.calls[j].ok
                                /\ out.calls[j].ref = write.ref
                                /\ out.calls[j].path = path
                      /\ write.sha # 0 =>
                            write.sha = BlobOf(github, write.ref, path)

\* commitChange has written the document to the recorded branch: the next
\* write of the same path carries the blob sha, unless its lookup fails.
C26_Witness ==
    /\ "commitChange" \in executed
    /\ state.branchInfo # None
    /\ BlobOf(github, state.branchInfo[1].name, DocPath) # 0
    /\ CommitChangeRun(env, github, state, DocPath, TRUE, 0).calls[2].sha = BlobSha
    /\ CommitChangeRun(env, github, state, DocPath, TRUE, 1).calls[2].sha = 0

\* No fetch of findDocumentation is waiting for its answer.
NoFetchPending ==
    /\ \A i \in DOMAIN fd.prRes : fd.prRes[i] # None
    /\ \A i \in DOMAIN fd.docRes : fd.docRes[i] # None

\* findDocumentation has returned a state or failed.
Returned == fd.pc \in {"done", "failed"}

\* C27: when every remote call returns or fails in the end, an invocation
\* returns a state or fails in the end; once it has, none of the calls it
\* started is pending and it issues no further call.  For findDocumentation
\* these are the steps of its concurrent fetches; for managePR, whose calls
\* follow each other, a failed call is the last one issued.
C27_ActionsEndWithNothingPending ==
    /\ Discovering ~> Returned
    /\ [](~Discovering => NoFetchPending)
    /\ [][(Returned /\ ~NewRun) => fd' = fd]_vars
    /\ [](\A opt \in ManagePROptions, fault \in Faults :
            LET s == WithSampleBranch(state)
                out == ManagePRRun(env, github, s,
                          ManagePRParams(ManagePRMarker \o <<" for the change">>,
                                         opt, runId, BodyFor(runId)),
                          TRUE, fault)
            IN  /\ out.result \in {"MissingCredential", "ok",
                                   "RemoteOperationFailed"}
                /\ FailsAtFailedCall(out)
                /\ fault \in 1..Len(out.calls) => out.result # "ok")

\* findDocumentation has returned after the fetches of the files of an
\* existing pull request and of every candidate path: every call it issued
\* has been answered.
C27_Witness ==
    /\ fd.pc = "done"
    /\ fd.existingPR # None
    /\ Len(fd.existingPR[1].files) >= 2
    /\ Len(fd.paths) = MaxPaths
    /\ NoFetchPending
    /\ Len(fd.calls) = 2 + Len(fd.prFiles) + Len(fd.paths) + 1

====
